---- MODULE Spec2Model ----
(***************************************************************************)
(* Model of the main-process command handler of Wallpaper Changer for      *)
(* macOS (src/main/main.ts): the ipcMain.on("command") listener, the       *)
(* three working files it shares between invocations, and the OS-held      *)
(* active wallpaper pointer.  Every await of the handler is one atomic     *)
(* step; several invocations of the handler may be in flight at once,      *)
(* because an async listener returns to the event loop at each await.      *)
(***************************************************************************)
EXTENDS Integers, Sequences, FiniteSets, Bags, TLC

(***************************************************************************)
(* Bounds of the model.                                                    *)
(***************************************************************************)
\* number of handler invocations that may be in flight at the same time
MaxInFlight == 2
\* number of commands dispatched in one behaviour
MaxCmds == 2
\* number of failures of external processes / filesystem calls injected
MaxFaults == 1
\* largest magnitude of the darken amount in the single-darken behaviours
MaxAmount == 130

Max(a, b) == IF a >= b THEN a ELSE b
Min(a, b) == IF a <= b THEN a ELSE b

(***************************************************************************)
(* Strings are sequences of one-character strings, so that toLowerCase,    *)
(* includes and slice are computed as JavaScript computes them.            *)
(***************************************************************************)
UpperCase == <<"A","B","C","D","E","F","G","H","I","J","K","L","M",
               "N","O","P","Q","R","S","T","U","V","W","X","Y","Z">>
LowerCase == <<"a","b","c","d","e","f","g","h","i","j","k","l","m",
               "n","o","p","q","r","s","t","u","v","w","x","y","z">>

\* String.prototype.toLowerCase on one character
LowerChar(c) ==
  IF \E i \in 1..Len(UpperCase) : UpperCase[i] = c
  THEN LowerCase[CHOOSE i \in 1..Len(UpperCase) : UpperCase[i] = c]
  ELSE c

\* String.prototype.toLowerCase
toLowerCase(s) == [i \in 1..Len(s) |-> LowerChar(s[i])]

\* a variant of includes that matches at the start only (startsWith)
includes_Prefix(s, t) == Len(t) <= Len(s) /\ SubSeq(s, 1, Len(t)) = t

\* String.prototype.includes: t occurs in s as a contiguous substring
includes(s, t) ==
  \E i \in 0..(Len(s) - Len(t)) : SubSeq(s, i + 1, i + Len(t)) = t

\* String.prototype.slice(-4): the last four characters (all, if shorter)
sliceLast4(s) == SubSeq(s, Max(1, Len(s) - 3), Len(s))

\* the extension allow-list [".jpg", ".png"]
AllowedExt == { <<".","j","p","g">>, <<".","p","n","g">> }

\* a variant that compares the last three characters, without the dot
isWallpaperFile_NoDot(name) ==
  toLowerCase(SubSeq(name, Max(1, Len(name) - 2), Len(name)))
    \in { <<"j","p","g">>, <<"p","n","g">> }

\* the filter callback of fs.readdir(categoryPath): file name accepted
isWallpaperFile(name) == toLowerCase(sliceLast4(name)) \in AllowedExt

\* Array.prototype.filter on a sequence, keeping order
RECURSIVE FilterSeq(_, _)
FilterSeq(s, keep) ==
  IF s = <<>> THEN <<>>
  ELSE IF Head(s) \in keep THEN <<Head(s)>> \o FilterSeq(Tail(s), keep)
       ELSE FilterSeq(Tail(s), keep)

(***************************************************************************)
(* Images.  An image is the content of a source file (base, width,         *)
(* height) and the effects the image tool has applied to it, in order.     *)
(***************************************************************************)
SourceImage(content, w, h) == [base |-> content, w |-> w, h |-> h, fx |-> <<>>]

\* ImageMagick -scale N%: a dimension scaled by a percentage
ScaleDim(x, pct) == Max(1, (x * pct + 50) \div 100)

\* magick IN -scale S% -colors C -scale 1667% OUT
Pixelate(img, scale, colors) ==
  [base |-> img.base,
   w |-> ScaleDim(ScaleDim(img.w, scale), 1667),
   h |-> ScaleDim(ScaleDim(img.h, scale), 1667),
   fx |-> Append(img.fx, [op |-> "pixelate", p1 |-> scale, p2 |-> colors, p3 |-> 0])]

\* magick IN -blur 0xR OUT
Blur(img, radius) ==
  [img EXCEPT !.fx = Append(img.fx, [op |-> "blur", p1 |-> radius, p2 |-> 0, p3 |-> 0])]

\* a variant without the upper clamp
Transparency_NoUpperClamp(amount) == Max(0, amount)

\* Math.max(0, Math.min(1, amount / 100)), in hundredths
Transparency(amount) == Max(0, Min(100, amount))

\* magick IN ( -size WxH xc:rgba(0,0,0,T) ) -compose over -composite OUT
Darken(img, dims, transparency) ==
  [img EXCEPT !.fx = Append(img.fx,
     [op |-> "darken", p1 |-> transparency, p2 |-> dims[1], p3 |-> dims[2]])]

\* magick identify -format "%wx%h"
Identify(img) == <<img.w, img.h>>

(***************************************************************************)
(* The wallpaper source directory.  An entry of WALLPAPER_DIR has a name,  *)
(* is a directory or not, and (a directory) lists its own entries in       *)
(* readdir order.  The program never writes below the categories, so the   *)
(* layout is fixed during a behaviour; Init draws it from Layouts.         *)
(***************************************************************************)
FileEntry(name, content, w, h) ==
  [name |-> name, isDir |-> FALSE, img |-> SourceImage(content, w, h)]
SubDirEntry(name) ==
  [name |-> name, isDir |-> TRUE, img |-> SourceImage(0, 1, 1)]
Category(name, files) == [name |-> name, isDir |-> TRUE, files |-> files]
PlainFile(name) == [name |-> name, isDir |-> FALSE, files |-> <<>>]

CatDark == Category(<<"D","a","r","k">>,
  << FileEntry(<<"a",".","j","p","g">>, 1, 100, 50),
     FileEntry(<<"c",".","j","p","e","g">>, 3, 100, 50) >>)
CatLight == Category(<<"l","i","g","h","t">>,
  << FileEntry(<<"d",".","g","i","f">>, 4, 100, 50),
     FileEntry(<<"e",".","P","N","G">>, 2, 60, 60) >>)
CatMisc == Category(<<"m","i","s","c">>,
  << FileEntry(<<"j","p","g">>, 5, 100, 50),
     FileEntry(<<"t",".","t","x","t">>, 6, 100, 50) >>)
CatDarkSub == Category(<<"x","D","A","R","K">>,
  << SubDirEntry(<<"s",".","j","p","g">>) >>)

\* the directory layouts considered, and the number of them
Layouts ==
  << << PlainFile(<<"u",".","j","p","g">>) >>,
     << CatMisc >>,
     << CatDark, PlainFile(<<"u",".","j","p","g">>), CatLight, CatMisc, CatDarkSub >> >>

\* the values of args.type the renderer or any other sender may pass
TypeArgs ==
  { [given |-> FALSE, val |-> <<>>],
    [given |-> TRUE, val |-> <<>>],
    [given |-> TRUE, val |-> <<"d","a","r","k">>],
    [given |-> TRUE, val |-> <<"L","i","g","h","t">>] }
Scales == {6}
Colors == {24}
Radii == {65}
Amounts == {-20, 50, 150}

Commands == {"toggle_dark_mode", "apply_new_wallpaper", "pixelate_wallpaper",
             "blur_wallpaper", "darken_wallpaper", "revert_wallpaper",
             "set_black_wallpaper", "unknown"}

NoArgs == [type |-> [given |-> FALSE, val |-> <<>>],
           scale |-> 0, colors |-> 0, radius |-> 0, amount |-> 0]

\* the payloads a sender may dispatch for a command
Payloads(c) ==
  CASE c = "apply_new_wallpaper" -> {[NoArgs EXCEPT !.type = t] : t \in TypeArgs}
    [] c = "pixelate_wallpaper" ->
         {[NoArgs EXCEPT !.scale = s, !.colors = k] : s \in Scales, k \in Colors}
    [] c = "blur_wallpaper" -> {[NoArgs EXCEPT !.radius = r] : r \in Radii}
    [] c = "darken_wallpaper" -> {[NoArgs EXCEPT !.amount = a] : a \in Amounts}
    [] OTHER -> {NoArgs}

(***************************************************************************)
(* State.                                                                  *)
(*   layout   which of Layouts WALLPAPER_DIR holds                         *)
(*   unmod    the file at UNMODIFIED_WALLPAPER: {} when absent, {image}    *)
(*   modf     the file at MODIFIED_WALLPAPER, likewise                     *)
(*   black    the file at BLACK_WALLPAPER_PATH exists                      *)
(*   active   the path the OS plist names as the wallpaper                 *)
(*   inv      the invocations of the listener in flight, a bag with one    *)
(*            record per invocation: its position                          *)
(*            (pc), the payload (cmd, args), the listener's local          *)
(*            constants (selectedCategory, randomFile, wallpaperToDarken,  *)
(*            dimensions), the image the image tool it awaits has read     *)
(*            (toolInput), the console lines it has written (logs) and     *)
(*            the error its promise was rejected with (thrown)             *)
(*   settled  the invocation whose promise the last step settled (pc       *)
(*            "done", its payload, the wallpaper it selected, the lines    *)
(*            it wrote and the error it was rejected with), or             *)
(*            NoInvocation when the last step settled none                 *)
(*   fresh, dispatched, faults, overlapped                                 *)
(*            bookkeeping: the program started with no working file on     *)
(*            disk, commands dispatched, failures injected, and whether    *)
(*            two invocations were ever in flight at once                  *)
(***************************************************************************)
VARIABLES layout, unmod, modf, black, active, inv, settled,
          fresh, dispatched, faults, overlapped

disk == <<unmod, modf, black>>
vars == <<layout, unmod, modf, black, active, inv, settled,
          fresh, dispatched, faults, overlapped>>
env == <<layout, fresh>>

\* the entries of WALLPAPER_DIR
Entries == Layouts[layout]

\* an invocation that has not started; also the locals of one that has
NoInvocation ==
  [pc |-> "idle", cmd |-> "none", args |-> NoArgs,
   selectedCategory |-> <<>>, randomFile |-> <<>>,
   wallpaperToDarken |-> "none", dimensions |-> <<0, 0>>, toolInput |-> {},
   logs |-> {}, thrown |-> "none"]

\* the invocations in flight
InFlight == BagToSet(inv)

\* what an earlier run of the program may have left on disk: nothing, or
\* (a layout with wallpapers only) a chosen wallpaper with an effect
\* applied to it, which is then the active wallpaper
LeftBehind == SourceImage(1, 100, 50)

Init ==
  /\ layout \in 1..Len(Layouts)
  /\ \/ /\ unmod = {} /\ modf = {} /\ active = "other"
     \/ /\ layout = Len(Layouts)
        /\ unmod = {LeftBehind}
        /\ modf = {Blur(LeftBehind, 65)}
        /\ active = "modified"
  /\ fresh = (unmod = {})
  /\ black = FALSE
  /\ inv = EmptyBag
  /\ settled = NoInvocation
  /\ dispatched = 0
  /\ faults = 0
  /\ overlapped = FALSE

(***************************************************************************)
(* How one step of an invocation ends.                                     *)
(***************************************************************************)
\* the invocation continues at the next await, its locals being next
Goto(r, label, next) ==
  /\ inv' = (inv (-) SetToBag({r})) (+) SetToBag({[next EXCEPT !.pc = label]})
  /\ settled' = NoInvocation

\* the invocation's promise settles and the invocation is gone
Settle(r, lines, error) ==
  /\ settled' = [r EXCEPT !.pc = "done", !.wallpaperToDarken = "none",
                          !.dimensions = <<0, 0>>, !.toolInput = {},
                          !.logs = @ \cup lines, !.thrown = error]
  /\ inv' = inv (-) SetToBag({r})

\* the case reaches its break: the listener's promise resolves
Return(r, lines) == Settle(r, lines, "none")

\* an error is thrown inside the switch.  The listener has no try/catch, so
\* the rest of the case is skipped and the listener's promise is rejected
\* with the error; the listener itself writes no line about it.
Throw(r, error, lines) == Settle(r, lines, error)

\* an external process or a filesystem call fails for a reason outside the
\* model (non-zero exit, I/O error)
InjectFault == faults < MaxFaults /\ faults' = faults + 1
NoFault == faults' = faults

\* executeCommand rejects: console.error(`Error executing ...`), reject(error)
ExecError == {"Error executing"}

\* setWallpaper(path): PlistBuddy sets the plist value, then killall
setWallpaper(r, path, onSuccess) ==
  \/ /\ NoFault
     /\ active' = path
     /\ onSuccess
  \/ /\ InjectFault
     /\ UNCHANGED active
     /\ Throw(r, "Command failed", ExecError)

\* a variant in which blur_wallpaper starts at the OS wallpaper-set step
FirstLabel_SetFirst(c) ==
  CASE c = "toggle_dark_mode" -> "t_exec"
    [] c = "apply_new_wallpaper" -> "a_readdir"
    [] c = "pixelate_wallpaper" -> "p_magick"
    [] c = "blur_wallpaper" -> "bl_setwp"
    [] c = "darken_wallpaper" -> "d_stat"
    [] c = "revert_wallpaper" -> "r_stat"
    [] c = "set_black_wallpaper" -> "b_access"

FirstLabel(c) ==
  CASE c = "toggle_dark_mode" -> "t_exec"
    [] c = "apply_new_wallpaper" -> "a_readdir"
    [] c = "pixelate_wallpaper" -> "p_magick"
    [] c = "blur_wallpaper" -> "bl_magick"
    [] c = "darken_wallpaper" -> "d_stat"
    [] c = "revert_wallpaper" -> "r_stat"
    [] c = "set_black_wallpaper" -> "b_access"

(***************************************************************************)
(* ipcMain.on("command", async (event, payload) => ...): a command is      *)
(* dispatched to a fresh invocation of the listener, which runs up to its  *)
(* first await.  Nothing prevents a dispatch while another invocation is   *)
(* suspended.                                                              *)
(***************************************************************************)
Dispatch(c, a) ==
  /\ dispatched < MaxCmds
  /\ BagCardinality(inv) < MaxInFlight
  /\ a \in Payloads(c)
  /\ dispatched' = dispatched + 1
  /\ overlapped' = (overlapped \/ (c # "unknown" /\ inv # EmptyBag))
  /\ IF c = "unknown"
     THEN \* default: console.log(`Unknown command: ${command}`), no await
          /\ settled' = [NoInvocation EXCEPT !.pc = "done", !.cmd = c,
                                             !.logs = {"Unknown command"}]
          /\ UNCHANGED inv
     ELSE /\ inv' = inv (+) SetToBag({[NoInvocation EXCEPT !.pc = FirstLabel(c),
                                                            !.cmd = c, !.args = a]})
          /\ settled' = NoInvocation
  /\ UNCHANGED <<env, disk, active, faults>>

\* case "toggle_dark_mode": await executeCommand(osascript ...)
ToggleExec(r) ==
  /\ r.pc = "t_exec"
  /\ \/ NoFault /\ Return(r, {})
     \/ InjectFault /\ Throw(r, "Command failed", ExecError)
  /\ UNCHANGED <<env, disk, active, dispatched, overlapped>>

(***************************************************************************)
(* case "apply_new_wallpaper"                                              *)
(***************************************************************************)
Range(s) == {s[i] : i \in 1..Len(s)}
Names(entries) == [i \in 1..Len(entries) |-> entries[i].name]

\* categories.filter((dir) => dir.isDirectory()).map((dir) => dir.name)
DirNames(entries) ==
  Names(FilterSeq(entries, {e \in Range(entries) : e.isDir}))

\* args.type as a condition: undefined and "" are falsy
Truthy(t) == t.given /\ t.val # <<>>

\* args.type ? dirs.filter(dir => dir.toLowerCase().includes(type.toLowerCase())) : dirs
ValidDirs(dirs, t) ==
  IF Truthy(t)
  THEN FilterSeq(dirs, {d \in Range(dirs) :
                          includes(toLowerCase(d), toLowerCase(t.val))})
  ELSE dirs

\* the entries of join(WALLPAPER_DIR, category)
CategoryEntries(category) ==
  (CHOOSE e \in Range(Entries) : e.isDir /\ e.name = category).files

\* (await fs.readdir(categoryPath)).filter(file => [".jpg", ".png"].includes(...))
WallpaperFiles(category) ==
  FilterSeq(Names(CategoryEntries(category)),
            {n \in Range(Names(CategoryEntries(category))) : isWallpaperFile(n)})

\* a variant of EntryAt that resolves to the first entry of the category
EntryAt_First(category, file) == CategoryEntries(category)[1]

\* the entry at join(categoryPath, file)
EntryAt(category, file) ==
  CHOOSE e \in Range(CategoryEntries(category)) : e.name = file

\* await fs.readdir(WALLPAPER_DIR, { withFileTypes: true }), then the
\* synchronous selection of the category
ApplyReadDir(r) ==
  /\ r.pc = "a_readdir"
  /\ \/ /\ InjectFault
        /\ Throw(r, "readdir failed", {})
     \/ /\ NoFault
        /\ LET dirs == DirNames(Entries)
               validDirs == ValidDirs(dirs, r.args.type)
           IN  \/ /\ Len(dirs) = 0
                  /\ Throw(r, "No categories found.", {})
               \/ /\ Len(dirs) # 0
                  /\ Len(validDirs) = 0
                  /\ Throw(r, "No categories found for type", {})
               \/ /\ Len(dirs) # 0
                  \* Math.floor(Math.random() * validDirs.length)
                  /\ \E i \in 1..Len(validDirs) :
                       Goto(r, "a_readcat",
                            [r EXCEPT !.selectedCategory = validDirs[i]])
  /\ UNCHANGED <<env, disk, active, dispatched, overlapped>>

\* a variant in which the modified wallpaper is deleted before the files of
\* the category are looked at
ApplyReadCategory_CleaningFirst(r) ==
  /\ r.pc = "a_readcat"
  /\ NoFault
  /\ modf' = {}
  /\ LET found == WallpaperFiles(r.selectedCategory)
     IN  \/ /\ Len(found) = 0
            /\ Throw(r, "No wallpapers found in the selected category.", {})
         \/ \E j \in 1..Len(found) :
              Goto(r, "a_copy", [r EXCEPT !.randomFile = found[j]])
  /\ UNCHANGED <<env, unmod, black, active, dispatched, overlapped>>

\* await fs.readdir(categoryPath), then the synchronous selection of the file
ApplyReadCategory(r) ==
  /\ r.pc = "a_readcat"
  /\ \/ /\ InjectFault
        /\ Throw(r, "readdir failed", {})
     \/ /\ NoFault
        /\ LET found == WallpaperFiles(r.selectedCategory)
           IN  \/ /\ Len(found) = 0
                  /\ Throw(r, "No wallpapers found in the selected category.", {})
               \/ \* Math.floor(Math.random() * files.length)
                  \E j \in 1..Len(found) :
                    Goto(r, "a_copy", [r EXCEPT !.randomFile = found[j]])
  /\ UNCHANGED <<env, disk, active, dispatched, overlapped>>

\* await fs.copyFile(join(categoryPath, randomFile), UNMODIFIED_WALLPAPER)
ApplyCopy(r) ==
  /\ r.pc = "a_copy"
  /\ LET entry == EntryAt(r.selectedCategory, r.randomFile)
     IN  \/ /\ entry.isDir
            /\ NoFault
            /\ Throw(r, "EISDIR", {})
            /\ UNCHANGED unmod
         \/ /\ InjectFault
            /\ Throw(r, "copyFile failed", {})
            /\ UNCHANGED unmod
         \/ /\ ~entry.isDir
            /\ NoFault
            /\ unmod' = {entry.img}
            /\ Goto(r, "a_setwp", r)
  /\ UNCHANGED <<env, modf, black, active, dispatched, overlapped>>

ApplyAfterSet(r) == Goto(r, "a_stat", r)

\* a variant in which apply_new_wallpaper leaves the active wallpaper alone
ApplySetWallpaper_Skipped(r) ==
  /\ r.pc = "a_setwp"
  /\ NoFault
  /\ UNCHANGED active
  /\ ApplyAfterSet(r)
  /\ UNCHANGED <<env, disk, dispatched, overlapped>>

\* await setWallpaper(UNMODIFIED_WALLPAPER)
ApplySetWallpaper(r) ==
  /\ r.pc = "a_setwp"
  /\ setWallpaper(r, "unmodified", ApplyAfterSet(r))
  /\ UNCHANGED <<env, disk, dispatched, overlapped>>

\* a variant in which apply_new_wallpaper never deletes the modified wallpaper
ApplyCleanupNeeded_Never == FALSE

\* if (await fs.stat(MODIFIED_WALLPAPER).catch(() => false))
ApplyCleanupNeeded == modf # {}

ApplyStat(r) ==
  /\ r.pc = "a_stat"
  /\ \/ ApplyCleanupNeeded /\ Goto(r, "a_unlink", r)
     \/ ~ApplyCleanupNeeded /\ Return(r, {"New wallpaper applied successfully."})
  /\ UNCHANGED <<env, disk, active, dispatched, faults, overlapped>>

\* await fs.unlink(MODIFIED_WALLPAPER)
ApplyUnlink(r) ==
  /\ r.pc = "a_unlink"
  /\ \/ /\ modf # {}
        /\ modf' = {}
        /\ Return(r, {"New wallpaper applied successfully."})
     \/ /\ modf = {}
        /\ UNCHANGED modf
        /\ Throw(r, "ENOENT", {})
  /\ UNCHANGED <<env, unmod, black, active, dispatched, faults, overlapped>>

(***************************************************************************)
(* cases "pixelate_wallpaper" and "blur_wallpaper"                         *)
(***************************************************************************)
\* the file at a working path
FileAt(path) == IF path = "modified" THEN modf ELSE unmod
ImageAt(path) == CHOOSE img \in FileAt(path) : TRUE

\* a variant in which pixelate and blur stack on an earlier result
EffectInput_Stacking == IF modf # {} THEN "modified" ELSE "unmodified"

\* the input the pixelate and blur command lines name: UNMODIFIED_WALLPAPER
EffectInput == "unmodified"

\* a variant in which the image tool, given a missing input, goes on with a
\* blank image instead of failing
MagickRead_BlankOnMissing(r, input, next) ==
  /\ NoFault
  /\ Goto(r, next, [r EXCEPT !.toolInput = IF FileAt(input) = {}
                                           THEN {SourceImage(0, 1, 1)}
                                           ELSE FileAt(input)])

\* await executeCommand(`magick IN ... OUT`), first half: the image tool
\* starts and reads IN; it exits non-zero when IN is missing
MagickRead(r, input, next) ==
  \/ /\ FileAt(input) # {}
     /\ NoFault
     /\ Goto(r, next, [r EXCEPT !.toolInput = FileAt(input)])
  \/ /\ FileAt(input) = {}
     /\ NoFault
     /\ Throw(r, "Command failed", ExecError)
  \/ /\ InjectFault
     /\ Throw(r, "Command failed", ExecError)

\* second half: the image tool writes OUT = MODIFIED_WALLPAPER and exits 0
MagickWrite(r, output, next) ==
  /\ modf' = output
  /\ Goto(r, next, [r EXCEPT !.toolInput = {}])

PixelateMagick(r) ==
  /\ r.pc = "p_magick"
  /\ MagickRead(r, EffectInput, "p_write")
  /\ UNCHANGED <<env, disk, active, dispatched, overlapped>>

PixelateWrite(r) ==
  /\ r.pc = "p_write"
  /\ MagickWrite(r, {Pixelate(img, r.args.scale, r.args.colors) : img \in r.toolInput},
                 "p_setwp")
  /\ UNCHANGED <<env, unmod, black, active, dispatched, faults, overlapped>>

PixelateDone(r) == Return(r, {"Wallpaper pixelated successfully."})

PixelateSetWallpaper(r) ==
  /\ r.pc = "p_setwp"
  /\ setWallpaper(r, "modified", PixelateDone(r))
  /\ UNCHANGED <<env, disk, dispatched, overlapped>>

BlurMagick(r) ==
  /\ r.pc = "bl_magick"
  /\ MagickRead(r, EffectInput, "bl_write")
  /\ UNCHANGED <<env, disk, active, dispatched, overlapped>>

\* a variant in which blur transforms the unmodified wallpaper in place
BlurWrite_InPlace(r) ==
  /\ r.pc = "bl_write"
  /\ unmod' = {Blur(img, r.args.radius) : img \in r.toolInput}
  /\ Goto(r, "bl_setwp", [r EXCEPT !.toolInput = {}])
  /\ UNCHANGED <<env, modf, black, active, dispatched, faults, overlapped>>

BlurWrite(r) ==
  /\ r.pc = "bl_write"
  /\ MagickWrite(r, {Blur(img, r.args.radius) : img \in r.toolInput}, "bl_setwp")
  /\ UNCHANGED <<env, unmod, black, active, dispatched, faults, overlapped>>

BlurDone(r) == Return(r, {"Wallpaper blurred successfully."})

BlurSetWallpaper(r) ==
  /\ r.pc = "bl_setwp"
  /\ setWallpaper(r, "modified", BlurDone(r))
  /\ UNCHANGED <<env, disk, dispatched, overlapped>>

(***************************************************************************)
(* case "darken_wallpaper"                                                 *)
(***************************************************************************)
\* a variant in which darken always reads the unmodified wallpaper
DarkenSource_Unmodified == "unmodified"

\* (await fs.stat(MODIFIED_WALLPAPER).catch(() => false)) ? MODIFIED : UNMODIFIED
DarkenSource == IF modf # {} THEN "modified" ELSE "unmodified"

DarkenStat(r) ==
  /\ r.pc = "d_stat"
  /\ Goto(r, "d_identify", [r EXCEPT !.wallpaperToDarken = DarkenSource])
  /\ UNCHANGED <<env, disk, active, dispatched, faults, overlapped>>

\* exec(`magick identify -format "%wx%h" "${wallpaperToDarken}"`)
DarkenIdentify(r) ==
  /\ r.pc = "d_identify"
  /\ \/ /\ FileAt(r.wallpaperToDarken) # {}
        /\ NoFault
        /\ Goto(r, "d_overlay",
                [r EXCEPT !.dimensions = Identify(ImageAt(r.wallpaperToDarken))])
     \/ /\ FileAt(r.wallpaperToDarken) = {}
        /\ NoFault
        /\ Throw(r, "Failed to get image dimensions", {})
     \/ /\ InjectFault
        /\ Throw(r, "Failed to get image dimensions", {})
  /\ UNCHANGED <<env, disk, active, dispatched, overlapped>>

\* await executeCommand(overlayCommand)
DarkenOverlay(r) ==
  /\ r.pc = "d_overlay"
  /\ MagickRead(r, r.wallpaperToDarken, "d_write")
  /\ UNCHANGED <<env, disk, active, dispatched, overlapped>>

DarkenWrite(r) ==
  /\ r.pc = "d_write"
  /\ MagickWrite(r, {Darken(img, r.dimensions, Transparency(r.args.amount)) :
                        img \in r.toolInput},
                 "d_setwp")
  /\ UNCHANGED <<env, unmod, black, active, dispatched, faults, overlapped>>

DarkenDone(r) == Return(r, {"Wallpaper darkened successfully using new method."})

DarkenSetWallpaper(r) ==
  /\ r.pc = "d_setwp"
  /\ setWallpaper(r, "modified", DarkenDone(r))
  /\ UNCHANGED <<env, disk, dispatched, overlapped>>

(***************************************************************************)
(* case "revert_wallpaper"                                                 *)
(***************************************************************************)
\* a variant in which revert never deletes the modified wallpaper
RevertCleanupNeeded_Never == FALSE

\* if (await fs.stat(MODIFIED_WALLPAPER).catch(() => false))
RevertCleanupNeeded == modf # {}

RevertStat(r) ==
  /\ r.pc = "r_stat"
  /\ \/ RevertCleanupNeeded /\ Goto(r, "r_unlink", r)
     \/ ~RevertCleanupNeeded /\ Goto(r, "r_stat2", r)
  /\ UNCHANGED <<env, disk, active, dispatched, faults, overlapped>>

\* await fs.unlink(MODIFIED_WALLPAPER)
RevertUnlink(r) ==
  /\ r.pc = "r_unlink"
  /\ \/ /\ modf # {}
        /\ modf' = {}
        /\ Goto(r, "r_stat2", r)
     \/ /\ modf = {}
        /\ UNCHANGED modf
        /\ Throw(r, "ENOENT", {})
  /\ UNCHANGED <<env, unmod, black, active, dispatched, faults, overlapped>>

\* a variant in which revert takes the unmodified wallpaper to exist
UnmodifiedExists_Always == TRUE

\* if (await fs.stat(UNMODIFIED_WALLPAPER).catch(() => false)) ... else ...
UnmodifiedExists == unmod # {}

RevertStatUnmodified(r) ==
  /\ r.pc = "r_stat2"
  /\ \/ UnmodifiedExists /\ Goto(r, "r_setwp", r)
     \/ ~UnmodifiedExists /\ Return(r, {"No unmodified wallpaper found to revert to."})
  /\ UNCHANGED <<env, disk, active, dispatched, faults, overlapped>>

RevertDone(r) == Return(r, {"Reverted to the unmodified wallpaper successfully."})

\* a variant in which revert points the OS at the modified path
RevertTarget_Modified == "modified"

\* await setWallpaper(UNMODIFIED_WALLPAPER)
RevertTarget == "unmodified"

RevertSetWallpaper(r) ==
  /\ r.pc = "r_setwp"
  /\ setWallpaper(r, RevertTarget, RevertDone(r))
  /\ UNCHANGED <<env, disk, dispatched, overlapped>>

(***************************************************************************)
(* case "set_black_wallpaper"                                              *)
(***************************************************************************)
\* a variant in which the black wallpaper is generated on every call
BlackNeedsGeneration_Always == TRUE

\* try { await fs.access(BLACK_WALLPAPER_PATH) } catch { ... generate ... }
BlackNeedsGeneration == ~black

BlackAccess(r) ==
  /\ r.pc = "b_access"
  /\ \/ /\ ~BlackNeedsGeneration
        /\ Goto(r, "b_setwp",
                [r EXCEPT !.logs = @ \cup {"Black wallpaper already exists."}])
     \/ /\ BlackNeedsGeneration
        /\ Goto(r, "b_gen", [r EXCEPT !.logs = @ \cup {"Creating black wallpaper."}])
  /\ UNCHANGED <<env, disk, active, dispatched, faults, overlapped>>

\* await executeCommand(`magick -size 1x1 xc:black "${BLACK_WALLPAPER_PATH}"`)
BlackGenerate(r) ==
  /\ r.pc = "b_gen"
  /\ \/ /\ NoFault
        /\ black' = TRUE
        /\ Goto(r, "b_setwp", r)
     \/ /\ InjectFault
        /\ UNCHANGED black
        /\ Throw(r, "Command failed", ExecError)
  /\ UNCHANGED <<env, unmod, modf, active, dispatched, overlapped>>

BlackDone(r) == Return(r, {"Black wallpaper set successfully."})

\* await setWallpaper(BLACK_WALLPAPER_PATH)
BlackSetWallpaper(r) ==
  /\ r.pc = "b_setwp"
  /\ setWallpaper(r, "black", BlackDone(r))
  /\ UNCHANGED <<env, disk, dispatched, overlapped>>

(***************************************************************************)
(* The specification.                                                      *)
(***************************************************************************)
Next ==
  \/ \E c \in Commands : \E a \in Payloads(c) : Dispatch(c, a)
  \/ \E r \in InFlight : ToggleExec(r)
  \/ \E r \in InFlight : ApplyReadDir(r)
  \/ \E r \in InFlight : ApplyReadCategory(r)
  \/ \E r \in InFlight : ApplyCopy(r)
  \/ \E r \in InFlight : ApplySetWallpaper(r)
  \/ \E r \in InFlight : ApplyStat(r)
  \/ \E r \in InFlight : ApplyUnlink(r)
  \/ \E r \in InFlight : PixelateMagick(r)
  \/ \E r \in InFlight : PixelateWrite(r)
  \/ \E r \in InFlight : PixelateSetWallpaper(r)
  \/ \E r \in InFlight : BlurMagick(r)
  \/ \E r \in InFlight : BlurWrite(r)
  \/ \E r \in InFlight : BlurSetWallpaper(r)
  \/ \E r \in InFlight : DarkenStat(r)
  \/ \E r \in InFlight : DarkenIdentify(r)
  \/ \E r \in InFlight : DarkenOverlay(r)
  \/ \E r \in InFlight : DarkenWrite(r)
  \/ \E r \in InFlight : DarkenSetWallpaper(r)
  \/ \E r \in InFlight : RevertStat(r)
  \/ \E r \in InFlight : RevertUnlink(r)
  \/ \E r \in InFlight : RevertStatUnmodified(r)
  \/ \E r \in InFlight : RevertSetWallpaper(r)
  \/ \E r \in InFlight : BlackAccess(r)
  \/ \E r \in InFlight : BlackGenerate(r)
  \/ \E r \in InFlight : BlackSetWallpaper(r)

Spec == Init /\ [][Next]_vars

(***************************************************************************)
(* One darken_wallpaper command, with any integer amount, run on its own   *)
(* on existing working files.                                              *)
(***************************************************************************)
AmountRange == (0 - MaxAmount)..MaxAmount

DarkenInit ==
  /\ layout = Len(Layouts)
  /\ unmod = {LeftBehind}
  /\ modf \in {{}, {Blur(LeftBehind, 65)}}
  /\ active = (IF modf = {} THEN "unmodified" ELSE "modified")
  /\ fresh = FALSE
  /\ black = FALSE
  /\ \E a \in AmountRange :
       inv = SetToBag({[NoInvocation EXCEPT !.pc = FirstLabel("darken_wallpaper"),
                                            !.cmd = "darken_wallpaper",
                                            !.args = [NoArgs EXCEPT !.amount = a]]})
  /\ settled = NoInvocation
  /\ dispatched = 1
  /\ faults = 0
  /\ overlapped = FALSE

DarkenNext ==
  \/ \E r \in InFlight : DarkenStat(r)
  \/ \E r \in InFlight : DarkenIdentify(r)
  \/ \E r \in InFlight : DarkenOverlay(r)
  \/ \E r \in InFlight : DarkenWrite(r)
  \/ \E r \in InFlight : DarkenSetWallpaper(r)

DarkenSpec == DarkenInit /\ [][DarkenNext]_vars

(***************************************************************************)
(* Commands run one at a time, and the OS wallpaper-set step never fails:  *)
(* the behaviours of the handler in which a command is dispatched only     *)
(* when none is in flight and no setWallpaper call rejects.  Other         *)
(* failures (image tool, filesystem, selection) still occur.               *)
(***************************************************************************)
\* the setWallpaper call of the transition has not rejected
OsSetSucceeds == settled'.thrown = "none"

SequentialNext ==
  \/ \E c \in Commands : \E a \in Payloads(c) : Dispatch(c, a) /\ ~overlapped'
  \/ \E r \in InFlight : ToggleExec(r)
  \/ \E r \in InFlight : ApplyReadDir(r)
  \/ \E r \in InFlight : ApplyReadCategory(r)
  \/ \E r \in InFlight : ApplyCopy(r)
  \/ \E r \in InFlight : ApplySetWallpaper(r) /\ OsSetSucceeds
  \/ \E r \in InFlight : ApplyStat(r)
  \/ \E r \in InFlight : ApplyUnlink(r)
  \/ \E r \in InFlight : PixelateMagick(r)
  \/ \E r \in InFlight : PixelateWrite(r)
  \/ \E r \in InFlight : PixelateSetWallpaper(r) /\ OsSetSucceeds
  \/ \E r \in InFlight : BlurMagick(r)
  \/ \E r \in InFlight : BlurWrite(r)
  \/ \E r \in InFlight : BlurSetWallpaper(r) /\ OsSetSucceeds
  \/ \E r \in InFlight : DarkenStat(r)
  \/ \E r \in InFlight : DarkenIdentify(r)
  \/ \E r \in InFlight : DarkenOverlay(r)
  \/ \E r \in InFlight : DarkenWrite(r)
  \/ \E r \in InFlight : DarkenSetWallpaper(r) /\ OsSetSucceeds
  \/ \E r \in InFlight : RevertStat(r)
  \/ \E r \in InFlight : RevertUnlink(r)
  \/ \E r \in InFlight : RevertStatUnmodified(r)
  \/ \E r \in InFlight : RevertSetWallpaper(r) /\ OsSetSucceeds
  \/ \E r \in InFlight : BlackAccess(r)
  \/ \E r \in InFlight : BlackGenerate(r)
  \/ \E r \in InFlight : BlackSetWallpaper(r) /\ OsSetSucceeds

SequentialSpec == Init /\ [][SequentialNext]_vars

(***************************************************************************)
(* Properties of the command handler.                                      *)
(***************************************************************************)
\* the command c has just settled (its promise resolved or was rejected)
JustSettled(c) == settled.pc = "done" /\ settled.cmd = c

\* the invocation r takes the step that the transition shows
StepOf(r) == CopiesIn(r, inv') < CopiesIn(r, inv)

\* the names of the subdirectories of WALLPAPER_DIR
CategoryNames == {e.name : e \in {x \in Range(Entries) : x.isDir}}

\* two characters are the same letter, whatever their case
SameLetter(a, b) ==
  \/ a = b
  \/ \E i \in 1..Len(UpperCase) : {a, b} = {UpperCase[i], LowerCase[i]}

\* t occurs in name, case-insensitively
ContainsIgnoringCase(name, t) ==
  \E i \in 1..(Len(name) - Len(t) + 1) :
    \A k \in 1..Len(t) : SameLetter(name[i + k - 1], t[k])

\* the unmodified wallpaper is a copy of the file the invocation r chose,
\* which is an entry of a category of WALLPAPER_DIR
UnmodifiedIsChosenFile(r) ==
  /\ r.selectedCategory \in CategoryNames
  /\ \E cat \in Range(Entries) :
       /\ cat.isDir
       /\ cat.name = r.selectedCategory
       /\ \E f \in Range(cat.files) :
            f.name = r.randomFile /\ ~f.isDir /\ unmod = {f.img}

\* C1 as stated: on every layout with at least one category, an
\* apply_new_wallpaper without type that runs alone and meets no failure of the
\* filesystem or of the OS command ends with the unmodified wallpaper a copy of
\* an existing file of an existing category that it picked.
C1_Original ==
  ( /\ JustSettled("apply_new_wallpaper")
    /\ ~settled.args.type.given
    /\ CategoryNames # {}
    /\ faults = 0
    /\ ~overlapped )
  => (settled.thrown = "none" /\ UnmodifiedIsChosenFile(settled))

\* C1, amended: whenever an apply_new_wallpaper without type that runs alone
\* completes successfully, the category and the file it picked exist in
\* WALLPAPER_DIR and the unmodified wallpaper has exactly the content of that
\* file.  (A pick of a category without .jpg/.png file makes the command fail.)
C1_UnmodifiedIsCopyOfChosen ==
  ( /\ JustSettled("apply_new_wallpaper")
    /\ ~settled.args.type.given
    /\ settled.thrown = "none"
    /\ ~overlapped )
  => UnmodifiedIsChosenFile(settled)

\* C1 witness: an apply_new_wallpaper without type has completed on the layout
\* with four categories, having picked light/e.PNG.
C1_Witness ==
  /\ JustSettled("apply_new_wallpaper")
  /\ ~settled.args.type.given
  /\ settled.thrown = "none"
  /\ ~overlapped
  /\ settled.randomFile = <<"e",".","P","N","G">>
  /\ unmod = {SourceImage(2, 60, 60)}

\* the categories eligible for the type t
EligibleCategories(t) ==
  IF t.given /\ Len(t.val) > 0
  THEN {d \in CategoryNames : ContainsIgnoringCase(d, t.val)}
  ELSE CategoryNames

\* C2: the categories apply_new_wallpaper selects from are exactly the
\* subdirectories whose name contains the type case-insensitively (all
\* subdirectories when the type is absent or empty), and the selected category
\* is one of them.
C2_SelectedIsEligible ==
  \A r \in InFlight \cup {settled} :
    r.cmd = "apply_new_wallpaper" =>
      /\ r.selectedCategory # <<>> =>
           r.selectedCategory \in EligibleCategories(r.args.type)
      /\ r.pc = "a_readcat" =>
           Range(ValidDirs(DirNames(Entries), r.args.type)) = EligibleCategories(r.args.type)
      /\ r.thrown = "No categories found for type" =>
           EligibleCategories(r.args.type) = {}

\* C2 witness: type "dark" has selected the category xDARK.
C2_Witness ==
  \E r \in InFlight :
    /\ r.args.type.val = <<"d","a","r","k">>
    /\ r.selectedCategory = <<"x","D","A","R","K">>

\* C3 as stated: an apply_new_wallpaper called while a modified wallpaper
\* exists (the first command of a run that started with one) leaves none
\* once it has finished.
C3_Original ==
  (JustSettled("apply_new_wallpaper") /\ ~fresh /\ dispatched = 1 /\ faults = 0)
  => modf = {}

\* C3, amended: when an apply_new_wallpaper that no other command overlaps
\* finishes successfully, no modified wallpaper exists.
C3_ModifiedAbsentAfterSuccess ==
  (JustSettled("apply_new_wallpaper") /\ settled.thrown = "none" /\ ~overlapped)
  => modf = {}

\* C3 witness: the run started with a modified wallpaper, and its first
\* command, an apply_new_wallpaper, has completed and deleted it.
C3_Witness ==
  /\ JustSettled("apply_new_wallpaper")
  /\ settled.thrown = "none"
  /\ ~overlapped
  /\ ~fresh
  /\ dispatched = 1
  /\ modf = {}

\* the record q is where an invocation stands after the step of the transition
Arrived(q) == CopiesIn(q, inv') > CopiesIn(q, inv)

\* C4: pixelate_wallpaper and blur_wallpaper read the unmodified wallpaper:
\* whatever modified wallpaper earlier commands left, the image tool of a
\* pixelate or blur that no command overlaps is handed the unmodified
\* wallpaper, and the modified wallpaper it writes is the effect applied, with
\* the command's arguments, once to the unmodified wallpaper (so a repeated
\* effect gives the same file and an effect never stacks on an earlier one).
C4_EffectsReadUnmodified ==
  \A r \in InFlight \cup {settled} :
    ~overlapped =>
      /\ r.pc \in {"p_write", "bl_write"} => r.toolInput = unmod /\ unmod # {}
      /\ ( /\ r.cmd = "pixelate_wallpaper"
           /\ r.pc = "p_setwp" \/ (r.pc = "done" /\ r.thrown = "none") )
         => /\ unmod # {}
            /\ modf = {Pixelate(u, r.args.scale, r.args.colors) : u \in unmod}
      /\ ( /\ r.cmd = "blur_wallpaper"
           /\ r.pc = "bl_setwp" \/ (r.pc = "done" /\ r.thrown = "none") )
         => /\ unmod # {}
            /\ modf = {Blur(u, r.args.radius) : u \in unmod}

\* C4 witness: the run started with the result of a blur of radius 65 as the
\* modified wallpaper; a second blur of radius 65 has completed and the
\* modified wallpaper is again the unmodified one blurred once.
C4_Witness ==
  /\ JustSettled("blur_wallpaper")
  /\ settled.thrown = "none"
  /\ settled.args.radius = 65
  /\ ~fresh
  /\ dispatched = 1
  /\ modf = {Blur(LeftBehind, 65)}

\* what a step of the darken_wallpaper invocation r does
C5_DarkenStep(r) ==
  /\ r.pc = "d_stat" =>
       \E q \in BagToSet(inv') :
         /\ Arrived(q)
         /\ q.wallpaperToDarken = (IF modf # {} THEN "modified" ELSE "unmodified")
  /\ (r.pc = "d_write" /\ ~overlapped) =>
       modf' = {Darken(src, Identify(src), Transparency(r.args.amount)) :
                  src \in (IF modf # {} THEN modf ELSE unmod)}

\* C5: darken_wallpaper chooses its input when it is called: the modified
\* wallpaper if that file exists then, the unmodified wallpaper otherwise; and
\* the file a darken that no command overlaps writes is the overlay put on the
\* modified wallpaper if there was one, on the unmodified wallpaper otherwise.
C5_DarkenReadsModifiedIfPresent ==
  [][\A r \in InFlight :
       (StepOf(r) /\ r.cmd = "darken_wallpaper") => C5_DarkenStep(r)]_vars

\* C5 witness: a darken issued on top of the result of a blur has written the
\* blurred image darkened.
C5_Witness ==
  \E r \in InFlight :
    /\ r.pc = "d_setwp"
    /\ r.args.amount = 50
    /\ ~overlapped
    /\ modf = {Darken(Blur(LeftBehind, 65), <<100, 50>>, 50)}

\* C6: when a revert_wallpaper that no command overlaps and no failure of the
\* OS command interrupts finishes while the unmodified wallpaper exists, it has
\* succeeded, the modified wallpaper is absent and the active wallpaper is the
\* unmodified path; and no step of revert_wallpaper changes the unmodified
\* wallpaper.
C6_RevertRestoresUnmodified ==
  /\ []( ( /\ JustSettled("revert_wallpaper")
           /\ ~overlapped
           /\ faults = 0
           /\ unmod # {} )
         => /\ settled.thrown = "none"
            /\ modf = {}
            /\ active = "unmodified" )
  /\ [][\A r \in InFlight :
          (StepOf(r) /\ r.cmd = "revert_wallpaper") => unmod' = unmod]_vars

\* C6 witness: the run started with a blurred wallpaper as active wallpaper;
\* revert_wallpaper has completed, having deleted it.
C6_Witness ==
  /\ JustSettled("revert_wallpaper")
  /\ settled.thrown = "none"
  /\ ~fresh
  /\ dispatched = 1
  /\ unmod = {LeftBehind}
  /\ modf = {}
  /\ active = "unmodified"

\* C7: no step of revert_wallpaper but the OS wallpaper-set step changes the
\* active wallpaper, and a revert_wallpaper that finds no unmodified wallpaper
\* ends there: it logs that there is nothing to revert to and resolves without
\* error, never reaching the OS wallpaper-set step.
C7_RevertWithoutUnmodified ==
  [][\A r \in InFlight :
       (StepOf(r) /\ r.cmd = "revert_wallpaper") =>
         /\ r.pc # "r_setwp" => active' = active
         /\ (r.pc = "r_stat2" /\ unmod = {}) =>
              /\ settled'.pc = "done"
              /\ settled'.thrown = "none"
              /\ "No unmodified wallpaper found to revert to." \in settled'.logs
              /\ "Reverted to the unmodified wallpaper successfully." \notin settled'.logs
              /\ \A q \in BagToSet(inv') : ~Arrived(q)]_vars

\* C7 witness: a revert_wallpaper has ended with the information line while
\* the black wallpaper is active and no unmodified wallpaper exists.
C7_Witness ==
  /\ JustSettled("revert_wallpaper")
  /\ settled.thrown = "none"
  /\ "No unmodified wallpaper found to revert to." \in settled.logs
  /\ unmod = {}
  /\ active = "black"

\* C8: set_black_wallpaper runs the generation step only when the black
\* wallpaper file does not exist; the file, once generated, is never removed,
\* so of two successive successful calls at most one generates; and the step
\* that completes a successful call leaves the active wallpaper at the black
\* path, with the file present.
C8_BlackGeneratedOnce ==
  /\ [](\A r \in InFlight : (r.pc = "b_gen" /\ ~overlapped) => ~black)
  /\ []((JustSettled("set_black_wallpaper") /\ settled.thrown = "none")
        => (black /\ active = "black"))
  /\ [][black => black']_vars

\* C8 witness: the second of two successive set_black_wallpaper calls has
\* completed, having found the cached file.
C8_Witness ==
  /\ JustSettled("set_black_wallpaper")
  /\ settled.thrown = "none"
  /\ "Black wallpaper already exists." \in settled.logs
  /\ "Creating black wallpaper." \notin settled.logs
  /\ dispatched = 2
  /\ ~overlapped
  /\ active = "black"

\* C9 as stated: every failure inside a command is caught by the handler, so
\* that no invocation ends with an error escaping it.
C9_Original == settled.pc = "done" => settled.thrown = "none"

\* the working files and the active wallpaper agree: the active wallpaper is
\* not a missing modified file, and a modified file is derived from the
\* unmodified file that exists
Consistent ==
  /\ active = "modified" => modf # {}
  /\ modf # {} => {m.base : m \in modf} = {u.base : u \in unmod}

\* C10: commands are not serialized, and only their interleaving makes the
\* working files inconsistent: whenever no invocation is in flight, no
\* external failure occurred and no command was started while another was in
\* flight, the files are consistent; with overlapping commands they need not be.
C10_InconsistentOnlyByOverlap ==
  (inv = EmptyBag /\ faults = 0 /\ ~overlapped) => Consistent

\* C10 witness: two commands overlapped, none failed from outside, both have
\* finished, and the active wallpaper names the modified path while that file
\* is absent.
C10_Witness ==
  /\ overlapped
  /\ faults = 0
  /\ inv = EmptyBag
  /\ active = "modified"
  /\ modf = {}

\* C10, second inconsistency: after overlapping commands the modified file is
\* derived from an unmodified file that has since been replaced.
C10_StaleModified ==
  /\ overlapped
  /\ faults = 0
  /\ inv = EmptyBag
  /\ modf # {}
  /\ unmod # {}
  /\ {m.base : m \in modf} # {u.base : u \in unmod}

EffectCommands == {"pixelate_wallpaper", "blur_wallpaper", "darken_wallpaper"}
ToolWriteLabels == {"p_write", "bl_write", "d_write"}
SetWallpaperLabels == {"p_setwp", "bl_setwp", "d_setwp"}
EffectSuccessLines ==
  {"Wallpaper pixelated successfully.", "Wallpaper blurred successfully.",
   "Wallpaper darkened successfully using new method."}

\* C11: an effect command reaches its OS wallpaper-set step only from the
\* step in which the image tool has written the modified wallpaper; it changes
\* the active wallpaper only in that OS step, and to the modified path; it logs
\* success only when that step has succeeded; and when it ends at any earlier
\* step (the image tool failed) it ends with an error, the active wallpaper
\* unchanged and no success logged.
C11_EffectStepOrder ==
  [][/\ \A q \in BagToSet(inv') :
          (Arrived(q) /\ q.pc \in SetWallpaperLabels) =>
            \E r \in InFlight :
              /\ StepOf(r)
              /\ r.cmd = q.cmd
              /\ r.pc \in ToolWriteLabels
              /\ modf' # {}
     /\ \A r \in InFlight :
          (StepOf(r) /\ r.cmd \in EffectCommands) =>
            /\ active' # active =>
                 (r.pc \in SetWallpaperLabels /\ active' = "modified")
            /\ settled'.logs \cap EffectSuccessLines # {} =>
                 /\ r.pc \in SetWallpaperLabels
                 /\ active' = "modified"
                 /\ settled'.thrown = "none"
            /\ (settled'.pc = "done" /\ r.pc \notin SetWallpaperLabels) =>
                 /\ settled'.thrown # "none"
                 /\ active' = active
                 /\ settled'.logs \cap EffectSuccessLines = {}]_vars

\* C11 witness: a blur_wallpaper issued while no unmodified wallpaper exists
\* has ended with the image tool's failure, the active wallpaper untouched.
C11_Witness ==
  /\ JustSettled("blur_wallpaper")
  /\ settled.thrown = "Command failed"
  /\ settled.logs \cap EffectSuccessLines = {}
  /\ faults = 0
  /\ dispatched = 1
  /\ unmod = {}
  /\ active = "other"

SelectionFailures ==
  {"No categories found.", "No categories found for type",
   "No wallpapers found in the selected category."}
SelectionLabels == {"a_readdir", "a_readcat"}

\* C12: apply_new_wallpaper fails in selection only in its two directory-read
\* steps, which come before the copy and before any external process, and
\* these steps leave the unmodified wallpaper, the modified wallpaper, the
\* black wallpaper and the active wallpaper as they are; so when the first
\* command of a run is an apply_new_wallpaper that fails in selection, files
\* and active wallpaper are those the run started with.
C12_SelectionFailureChangesNothing ==
  /\ [][\A r \in InFlight :
          (StepOf(r) /\ r.cmd = "apply_new_wallpaper") =>
            /\ r.pc \in SelectionLabels =>
                 (unmod' = unmod /\ modf' = modf /\ black' = black /\ active' = active)
            /\ settled'.thrown \in SelectionFailures =>
                 /\ r.pc \in SelectionLabels
                 /\ settled'.logs = {}]_vars
  /\ []( ( /\ JustSettled("apply_new_wallpaper")
           /\ settled.thrown \in SelectionFailures
           /\ dispatched = 1 )
         => /\ ~black
            /\ IF fresh
               THEN unmod = {} /\ modf = {} /\ active = "other"
               ELSE /\ unmod = {LeftBehind}
                    /\ modf = {Blur(LeftBehind, 65)}
                    /\ active = "modified" )

\* C12 witness: the run started with a blurred wallpaper; its first command,
\* an apply_new_wallpaper, picked the category misc, which holds no .jpg/.png
\* file, and failed; the files and the active wallpaper are as they were.
C12_Witness ==
  /\ JustSettled("apply_new_wallpaper")
  /\ settled.thrown = "No wallpapers found in the selected category."
  /\ settled.selectedCategory = <<"m","i","s","c">>
  /\ dispatched = 1
  /\ ~fresh
  /\ unmod = {LeftBehind}
  /\ modf = {Blur(LeftBehind, 65)}
  /\ active = "modified"

\* C13: the unmodified wallpaper changes only in the copy step of an
\* apply_new_wallpaper: no step of any other command, successful or failing,
\* creates, rewrites or deletes it.
C13_UnmodifiedWrittenOnlyByApply ==
  [][unmod' # unmod =>
       \E r \in InFlight :
         /\ StepOf(r)
         /\ r.cmd = "apply_new_wallpaper"
         /\ r.pc = "a_copy"]_vars

\* C13 witness: the run started with working files; a darken_wallpaper, its
\* only command, has rewritten the modified wallpaper and completed, and the
\* unmodified wallpaper is the one the run started with.
C13_Witness ==
  /\ JustSettled("darken_wallpaper")
  /\ settled.thrown = "none"
  /\ dispatched = 1
  /\ ~fresh
  /\ modf # {Blur(LeftBehind, 65)}
  /\ unmod = {LeftBehind}

\* amount / 100 clamped to [0, 1], in hundredths
ClampedOpacity(amount) ==
  IF amount <= 0 THEN 0 ELSE IF amount >= 100 THEN 100 ELSE amount

\* C14: for every integer amount, the overlay a darken_wallpaper has composed
\* on its input has opacity 0 when amount <= 0, amount/100 when
\* 0 <= amount <= 100 and 1 when amount >= 100, and the size of the input.
C14_OpacityClamped ==
  \A r \in InFlight \cup {settled} :
    ( /\ r.cmd = "darken_wallpaper"
      /\ r.pc = "d_setwp" \/ (r.pc = "done" /\ r.thrown = "none") )
    => /\ modf # {}
       /\ \A m \in modf :
            /\ Len(m.fx) > 0
            /\ m.fx[Len(m.fx)].op = "darken"
            /\ m.fx[Len(m.fx)].p1 = ClampedOpacity(r.args.amount)
            /\ <<m.fx[Len(m.fx)].p2, m.fx[Len(m.fx)].p3>> = <<m.w, m.h>>

\* C14 witness: a darken_wallpaper with amount 100 has completed with a fully
\* opaque overlay.
C14_Witness ==
  /\ JustSettled("darken_wallpaper")
  /\ settled.thrown = "none"
  /\ settled.args.amount = 100
  /\ \E m \in modf : m.fx[Len(m.fx)].p1 = 100

\* name ends in ext, whatever the case of its letters
EndsWithIgnoringCase(name, ext) ==
  /\ Len(name) >= Len(ext)
  /\ \A k \in 1..Len(ext) : SameLetter(name[Len(name) - Len(ext) + k], ext[k])

\* C15: the file an apply_new_wallpaper has selected is the name of an entry
\* directly inside the selected category, and the name ends,
\* case-insensitively, in .jpg or .png; once the copy has been made, the
\* unmodified wallpaper of an apply_new_wallpaper that no command overlaps is
\* the content of that entry, which is a file.
C15_SelectedFileIsJpgOrPng ==
  \A r \in InFlight \cup {settled} :
    (r.cmd = "apply_new_wallpaper" /\ r.randomFile # <<>>) =>
      /\ \E cat \in Range(Entries) :
           /\ cat.isDir
           /\ cat.name = r.selectedCategory
           /\ \E f \in Range(cat.files) : f.name = r.randomFile
      /\ \/ EndsWithIgnoringCase(r.randomFile, <<".","j","p","g">>)
         \/ EndsWithIgnoringCase(r.randomFile, <<".","p","n","g">>)
      /\ (r.pc \in {"a_setwp", "a_stat", "a_unlink"} /\ ~overlapped) =>
           UnmodifiedIsChosenFile(r)

\* C15 witness: an apply_new_wallpaper has copied e.PNG from the category
\* light, which also holds d.gif.
C15_Witness ==
  \E r \in InFlight :
    /\ r.pc = "a_setwp"
    /\ r.selectedCategory = <<"l","i","g","h","t">>
    /\ r.randomFile = <<"e",".","P","N","G">>
    /\ unmod = {SourceImage(2, 60, 60)}

\* C16: in every state of a run that started with neither working file, under
\* any interleaving of the commands and with or without failures, the
\* modified wallpaper exists only if the unmodified wallpaper exists.
C16_ModifiedOnlyWithUnmodified ==
  fresh => (modf # {} => unmod # {})

\* C16 witness: in a run that started with neither working file, an effect
\* command that overlapped an apply_new_wallpaper has written the modified
\* wallpaper.
C16_Witness ==
  /\ fresh
  /\ overlapped
  /\ modf # {}
  /\ unmod # {}

\* the file the active wallpaper names exists ("other" is a wallpaper the
\* program did not set, which it never deletes)
ActiveFileExists ==
  /\ active = "unmodified" => unmod # {}
  /\ active = "modified" => modf # {}
  /\ active = "black" => black

\* C17: when commands run one at a time and no OS wallpaper-set step fails,
\* then whenever no command is in flight the active wallpaper names a file
\* that exists, whatever other failures the commands met.
C17_ActiveWallpaperExists ==
  inv = EmptyBag => ActiveFileExists

\* C17 witness: started with a blurred wallpaper as active wallpaper, a
\* command has failed and a revert_wallpaper, run after it, has deleted the
\* modified wallpaper and completed.
C17_Witness ==
  /\ JustSettled("revert_wallpaper")
  /\ settled.thrown = "none"
  /\ ~fresh
  /\ dispatched = 2
  /\ faults = 1
  /\ modf = {}
  /\ active = "unmodified"

====
